---- MODULE Spec2Model ----
(***************************************************************************)
(* Model of metpy/calc/kinematics.py: the unit-propagating gradient, the   *)
(* dim_order wrapper (ensure_yx_order), the kinematic formulas built on    *)
(* them and storm_relative_helicity.                                       *)
(*                                                                         *)
(* Every entry point is a pure function, so the state is one call: the     *)
(* input data the caller holds (inp), the last call made (call) and its    *)
(* outcome (ret, the warnings it emitted).  Floating-point numbers are     *)
(* modelled as exact rationals <<numerator, denominator>>; a pint Quantity *)
(* is a magnitude (an n-dimensional array of rationals; a scalar is the    *)
(* array of shape <<>>) with a dimension vector <<length, time, mass,      *)
(* temperature>>; unit scale factors (knot vs m/s) are not modelled.       *)
(***************************************************************************)
EXTENDS Integers, Sequences, FiniteSets, TLC

VARIABLES inp, call, ret, warned

vars == <<inp, call, ret, warned>>

\* ------------------------------------------------------------------ bounds
MaxDim == 3        \* every grid axis has 2..MaxDim points
MaxSeed == 2       \* input fields are generated from seeds 0..MaxSeed
MaxDelta == 2      \* grid spacings dx, dy range over 1..MaxDelta, dp over -MaxDelta..-1
MaxLev == 3        \* a sounding has 2..MaxLev levels

\* -------------------------------------------------------- rational numbers
Abs(n) == IF n < 0 THEN -n ELSE n

RECURSIVE GCD(_, _)
GCD(a, b) == IF b = 0 THEN a ELSE GCD(b, a % b)

\* n/d in lowest terms with a positive denominator (d # 0)
Rat(n, d) ==
    LET s == IF d < 0 THEN -1 ELSE 1
        g == GCD(Abs(n), Abs(d))
    IN  <<(s * n) \div g, (s * d) \div g>>

R(n) == <<n, 1>>
RNeg(a) == <<-a[1], a[2]>>

\* sums over the least common denominator, products reduced crosswise first
RAdd(a, b) ==
    LET g == GCD(a[2], b[2])
    IN  Rat(a[1] * (b[2] \div g) + b[1] * (a[2] \div g), (a[2] \div g) * b[2])

RSub(a, b) == RAdd(a, RNeg(b))

RMul(a, b) ==
    LET p == Rat(a[1], b[2])
        q == Rat(b[1], a[2])
    IN  <<p[1] * q[1], p[2] * q[2]>>

\* true division (from __future__ import division); b # 0
RDiv(a, b) == RMul(a, Rat(b[2], b[1]))

RSign(a) == IF a[1] > 0 THEN 1 ELSE IF a[1] < 0 THEN -1 ELSE 0
RLt(a, b) == RSign(RSub(a, b)) < 0
RLe(a, b) == RSign(RSub(a, b)) <= 0

\* np.sqrt of a rational that is >= 0, kept exact: <<n, d, 2>> stands for the
\* non-negative real whose square is n/d
RSqrt(a) == <<a[1], a[2], 2>>

\* ------------------------------------------------- dimensions (pint units)
Dimensionless == <<0, 0, 0, 0>>
Length == <<1, 0, 0, 0>>
Time == <<0, 1, 0, 0>>
Temperature == <<0, 0, 0, 1>>
Speed == <<1, -1, 0, 0>>
Frequency == <<0, -1, 0, 0>>
Acceleration == <<1, -2, 0, 0>>
Geopotential == <<2, -2, 0, 0>>
Pressure == <<-1, -2, 1, 0>>
DimMul(a, b) == [k \in 1..4 |-> a[k] + b[k]]
DimDiv(a, b) == [k \in 1..4 |-> a[k] - b[k]]
DimSqrt(a) == [k \in 1..4 |-> a[k] \div 2]

\* ------------------------------------------------------------------ values
\* A raised exception, propagated through every operation that receives it.
Err(name) == [kind |-> "raise", exc |-> name]
IsErr(x) == x.kind = "raise"
IsQ(x) == x.kind = "q"
IsSeq(x) == x.kind = "seq"

RECURSIVE Idx(_)
Idx(shape) ==
    IF shape = <<>> THEN {<<>>}
    ELSE {<<i>> \o t : i \in 1..Head(shape), t \in Idx(Tail(shape))}

\* A sequence given by a rule, written out element by element: shapes and
\* indices are always plain tuples
Tup(f, n) == SubSeq(f, 1, n)

Reverse(s) == Tup([k \in 1..Len(s) |-> s[Len(s) + 1 - k]], Len(s))

Quantity(shape, at, dim) == [kind |-> "q", shape |-> shape, at |-> at, dim |-> dim]
Scalar(r, dim) == Quantity(<<>>, [i \in {<<>>} |-> r], dim)
SeqOf(items) == [kind |-> "seq", items |-> items]
None == [kind |-> "none"]
ndim(a) == Len(a.shape)
mag(q) == q.at[<<>>]

\* arr.T: numpy reverses the order of all axes
T(a) ==
    Quantity(Reverse(a.shape), [i \in Idx(Reverse(a.shape)) |-> a.at[Reverse(i)]], a.dim)

\* ------------------------------------------- elementwise array arithmetic
\* numpy broadcasting: shapes are aligned at their trailing axes; two axis
\* lengths are compatible when they are equal or one of them is 1.
Pad(s, n) == Tup([k \in 1..n |-> IF k <= n - Len(s) THEN 1 ELSE s[k - (n - Len(s))]], n)
Max(a, b) == IF a >= b THEN a ELSE b

Compatible(s1, s2) ==
    LET n == Max(Len(s1), Len(s2))
    IN  \A k \in 1..n : \/ Pad(s1, n)[k] = Pad(s2, n)[k]
                        \/ Pad(s1, n)[k] = 1
                        \/ Pad(s2, n)[k] = 1

BShape(s1, s2) ==
    LET n == Max(Len(s1), Len(s2))
    IN  Tup([k \in 1..n |-> Max(Pad(s1, n)[k], Pad(s2, n)[k])], n)

BIdx(i, s) ==
    Tup([k \in 1..Len(s) |-> IF s[k] = 1 THEN 1 ELSE i[k + Len(i) - Len(s)]], Len(s))

\* the elementwise operators +, -, *, / of two numbers
ROp(op, x, y) ==
    CASE op = "+" -> RAdd(x, y)
      [] op = "-" -> RSub(x, y)
      [] op = "*" -> RMul(x, y)
      [] op = "/" -> RDiv(x, y)

QBin(op, a, b, dim) ==
    IF ~Compatible(a.shape, b.shape) THEN Err("ValueError")
    ELSE LET bs == BShape(a.shape, b.shape)
         IN  Quantity(bs,
                      [i \in Idx(bs) |-> ROp(op, a.at[BIdx(i, a.shape)], b.at[BIdx(i, b.shape)])],
                      dim)

\* pint: + and - need equal dimensions, * and / compose them
QAdd(a, b) ==
    IF IsErr(a) THEN a ELSE IF IsErr(b) THEN b
    ELSE IF a.dim # b.dim THEN Err("DimensionalityError")
    ELSE QBin("+", a, b, a.dim)

QSub(a, b) ==
    IF IsErr(a) THEN a ELSE IF IsErr(b) THEN b
    ELSE IF a.dim # b.dim THEN Err("DimensionalityError")
    ELSE QBin("-", a, b, a.dim)

QMul(a, b) ==
    IF IsErr(a) THEN a ELSE IF IsErr(b) THEN b
    ELSE QBin("*", a, b, DimMul(a.dim, b.dim))

QDiv(a, b) ==
    IF IsErr(a) THEN a ELSE IF IsErr(b) THEN b
    ELSE QBin("/", a, b, DimDiv(a.dim, b.dim))

QNeg(a) ==
    IF IsErr(a) THEN a
    ELSE Quantity(a.shape, [i \in Idx(a.shape) |-> RNeg(a.at[i])], a.dim)

\* ------------------------------------------------------------ np.gradient
\* Derivative of the magnitudes `at` (of shape `shape`) along axis k with the
\* uniform spacing h: centered at interior points, one-sided at both ends.
\* A variant whose end points take the sum of the two points instead of their
\* difference. C14 tells the two apart.
np_gradient_axis_edgesum(at, shape, k, h) ==
    [i \in Idx(shape) |->
        IF i[k] = 1
        THEN RDiv(RAdd(at[[i EXCEPT ![k] = 2]], at[i]), h)
        ELSE IF i[k] = shape[k]
        THEN RDiv(RAdd(at[i], at[[i EXCEPT ![k] = shape[k] - 1]]), h)
        ELSE RDiv(RSub(at[[i EXCEPT ![k] = i[k] + 1]], at[[i EXCEPT ![k] = i[k] - 1]]),
                  RMul(R(2), h))]

np_gradient_axis(at, shape, k, h) ==
    [i \in Idx(shape) |->
        IF i[k] = 1
        THEN RDiv(RSub(at[[i EXCEPT ![k] = 2]], at[i]), h)
        ELSE IF i[k] = shape[k]
        THEN RDiv(RSub(at[i], at[[i EXCEPT ![k] = shape[k] - 1]]), h)
        ELSE RDiv(RSub(at[[i EXCEPT ![k] = i[k] + 1]], at[[i EXCEPT ![k] = i[k] - 1]]),
                  RMul(R(2), h))]

\* _gradient(f, *args): np.gradient with units.  Missing spacings are appended
\* as dimensionless 1; np.gradient refuses a number of spacings that is neither
\* 1 nor f.ndim.
PadSpacings(f, args) ==
    IF Len(args) < ndim(f)
    THEN args \o [k \in 1..(ndim(f) - Len(args)) |-> Scalar(R(1), Dimensionless)]
    ELSE args

GradientAlong(f, k, dx) ==
    Quantity(f.shape, np_gradient_axis(f.at, f.shape, k, mag(dx)), DimDiv(f.dim, dx.dim))

GradientPadded(f, padded) ==
    IF Len(padded) # ndim(f) THEN Err("TypeError")
    ELSE IF ndim(f) = 1 THEN GradientAlong(f, 1, padded[1])
    ELSE SeqOf([k \in 1..ndim(f) |-> GradientAlong(f, k, padded[k])])

_gradient(f, args) == GradientPadded(f, PadSpacings(f, args))

\* dudy, dudx = ...; dvdy, dvdx = ...; return dudx, dudy, dvdx, dvdy
UnpackGradients(gu, gv) ==
    IF IsErr(gu) THEN gu ELSE IF IsErr(gv) THEN gv
    ELSE IF ~IsSeq(gu) \/ ~IsSeq(gv) \/ Len(gu.items) # 2 \/ Len(gv.items) # 2
    THEN Err("ValueError")          \* tuple unpacking of dudy, dudx fails
    ELSE SeqOf(<<gu.items[2], gu.items[1], gv.items[2], gv.items[1]>>)

\* _get_gradients(u, v, dx, dy): <<dudx, dudy, dvdx, dvdy>>
\* A variant that hands the spacings to _gradient as (dx, dy): dx would then
\* divide the differences along the first axis. C2 tells the two apart.
_get_gradients_swapped(u, v, dx, dy) ==
    UnpackGradients(_gradient(u, <<dx, dy>>), _gradient(v, <<dx, dy>>))

_get_gradients(u, v, dx, dy) ==
    UnpackGradients(_gradient(u, <<dy, dx>>), _gradient(v, <<dy, dx>>))

\* ------------------------------------------------- formulas in yx order
\* In the tuple grads of _get_gradients, dudx is item 1, dudy item 2, dvdx
\* item 3 and dvdy item 4.
\* a tuple whose element raised never exists: the exception propagates
Tuple2(a, b) == IF IsErr(a) THEN a ELSE IF IsErr(b) THEN b ELSE SeqOf(<<a, b>>)

Vorticity(grads) == IF IsErr(grads) THEN grads ELSE QSub(grads.items[3], grads.items[2])
Convergence(grads) == IF IsErr(grads) THEN grads ELSE QAdd(grads.items[1], grads.items[4])
Shearing(grads) == IF IsErr(grads) THEN grads ELSE QAdd(grads.items[3], grads.items[2])
Stretching(grads) == IF IsErr(grads) THEN grads ELSE QSub(grads.items[1], grads.items[4])

\* return dvdx - dudy
v_vorticity(u, v, dx, dy) == Vorticity(_get_gradients(u, v, dx, dy))

\* return dudx + dvdy
h_convergence(u, v, dx, dy) == Convergence(_get_gradients(u, v, dx, dy))

\* return dudx + dvdy, dvdx - dudy
\* A variant returning the pair as (vorticity, convergence). C3 tells the two
\* apart.
ConvergenceVorticity_swapped(grads) ==
    IF IsErr(grads) THEN grads
    ELSE Tuple2(QSub(grads.items[3], grads.items[2]), QAdd(grads.items[1], grads.items[4]))

ConvergenceVorticity(grads) ==
    IF IsErr(grads) THEN grads
    ELSE Tuple2(QAdd(grads.items[1], grads.items[4]), QSub(grads.items[3], grads.items[2]))
convergence_vorticity(u, v, dx, dy) == ConvergenceVorticity(_get_gradients(u, v, dx, dy))

\* return dvdx + dudy
shearing_deformation(u, v, dx, dy) == Shearing(_get_gradients(u, v, dx, dy))

\* return dudx - dvdy
stretching_deformation(u, v, dx, dy) == Stretching(_get_gradients(u, v, dx, dy))

\* return dvdx + dudy, dudx - dvdy
ShearingStretching(grads) ==
    IF IsErr(grads) THEN grads
    ELSE Tuple2(QAdd(grads.items[3], grads.items[2]), QSub(grads.items[1], grads.items[4]))
shearing_stretching_deformation(u, v, dx, dy) ==
    ShearingStretching(_get_gradients(u, v, dx, dy))

\* x**2 and np.sqrt(x), elementwise
Square(x) == QMul(x, x)
np_sqrt(x) ==
    IF IsErr(x) THEN x
    ELSE Quantity(x.shape, [i \in Idx(x.shape) |-> RSqrt(x.at[i])], DimSqrt(x.dim))

\* A variant whose first term is dvdx - dudy. C13 tells the two apart.
TotalDeformation_signslip(grads) ==
    IF IsErr(grads) THEN grads
    ELSE np_sqrt(QAdd(Square(QSub(grads.items[3], grads.items[2])),
                      Square(QSub(grads.items[1], grads.items[4]))))

\* return np.sqrt((dvdx + dudy)**2 + (dudx - dvdy)**2)
TotalDeformation(grads) ==
    IF IsErr(grads) THEN grads
    ELSE np_sqrt(QAdd(Square(QAdd(grads.items[3], grads.items[2])),
                      Square(QSub(grads.items[1], grads.items[4]))))
total_deformation(u, v, dx, dy) == TotalDeformation(_get_gradients(u, v, dx, dy))

\* _stack(arrs): every element gets a new leading axis and the elements are
\* concatenated along it, in the units of the first.  Iterating an array walks
\* its first axis, so stacking an array gives the array back.
_stack(arrs) ==
    IF IsErr(arrs) THEN arrs
    ELSE IF IsQ(arrs) THEN (IF ndim(arrs) = 0 THEN Err("TypeError") ELSE arrs)
    ELSE IF ~IsSeq(arrs) THEN Err("TypeError")
    ELSE LET it == arrs.items
         IN  IF it = <<>> THEN Err("ValueError")
             ELSE IF \E k \in 1..Len(it) : ~IsQ(it[k]) THEN Err("TypeError")
             ELSE IF \E k \in 1..Len(it) : it[k].dim # it[1].dim
             THEN Err("DimensionalityError")
             ELSE IF \E k \in 1..Len(it) : it[k].shape # it[1].shape
             THEN Err("ValueError")
             ELSE Quantity(<<Len(it)>> \o it[1].shape,
                           [i \in Idx(<<Len(it)>> \o it[1].shape) |->
                               it[Head(i)].at[Tail(i)]],
                           it[1].dim)

\* wind[::-1]: the first axis reversed
ReverseFirstAxis(a) ==
    Quantity(a.shape,
             [i \in Idx(a.shape) |-> a.at[[i EXCEPT ![1] = a.shape[1] + 1 - i[1]]]],
             a.dim)

\* atleast_2d of one array: a scalar becomes (1, 1), a 1-D array (1, n)
atleast_2d(a) ==
    IF ndim(a) >= 2 THEN a
    ELSE LET sh == Pad(a.shape, 2)
         IN  Quantity(sh, [i \in Idx(sh) |-> a.at[BIdx(i, a.shape)]], a.dim)

RECURSIVE RSum(_, _)
RSum(f, n) == IF n = 0 THEN R(0) ELSE RAdd(RSum(f, n - 1), f[n])

\* a.sum(axis=0)
SumAxis0(a) ==
    IF IsErr(a) THEN a
    ELSE Quantity(Tail(a.shape),
                  [i \in Idx(Tail(a.shape)) |->
                      RSum([k \in 1..Head(a.shape) |-> a.at[<<k>> \o i]], Head(a.shape))],
                  a.dim)

\* if wind.ndim > scalar.ndim: wind = wind[::-1]
\* A variant that leaves the wind components in the order given, so that u
\* meets the y gradient. C4 tells the two apart.
AlignWind_asgiven(wind, scalar) == wind

AlignWind(wind, scalar) ==
    IF IsErr(wind) THEN wind
    ELSE IF ndim(wind) > ndim(scalar) THEN ReverseFirstAxis(wind) ELSE wind

\* grad, wind = atleast_2d(grad, wind); return (-grad * wind).sum(axis=0)
Advect(grad, wind) ==
    IF IsErr(wind) THEN wind
    ELSE IF IsErr(grad) THEN grad
    ELSE SumAxis0(QMul(QNeg(atleast_2d(grad)), atleast_2d(wind)))

\* A variant that multiplies the wind by the scalar itself instead of by its
\* gradient. C15 tells the two apart.
advection_of_values(scalar, wind, deltas) ==
    Advect(_stack(scalar), AlignWind(_stack(wind), scalar))

advection(scalar, wind, deltas) ==
    Advect(_stack(_gradient(scalar, Reverse(deltas.items))),
           AlignWind(_stack(wind), scalar))

\* standard gravity, 9.80665 m/s^2
g == Scalar(Rat(980665, 100000), Acceleration)

\* A variant that takes the first two gradient components, grad[:2]. C12
\* tells the two apart.
Geostrophic_leading(norm_factor, grad, n) ==
    IF IsErr(grad) THEN grad
    ELSE Tuple2(QMul(QNeg(norm_factor), grad.items[1]),
                QMul(norm_factor, grad.items[2]))

\* dy, dx = grad[-2:]; return -norm_factor * dy, norm_factor * dx
Geostrophic(norm_factor, grad, n) ==
    IF IsErr(grad) THEN grad
    ELSE Tuple2(QMul(QNeg(norm_factor), grad.items[n - 1]),
                QMul(norm_factor, grad.items[n]))

\* A variant that always normalises by g / f, whatever the units of heights.
\* C6 tells the two apart.
geostrophic_wind_height_only(heights, f, dx, dy) ==
    Geostrophic(QDiv(g, f),
                _gradient(heights,
                          [k \in 1..(ndim(heights) - 2) |-> Scalar(R(1), Length)]
                          \o <<dy, dx>>),
                ndim(heights))

geostrophic_wind(heights, f, dx, dy) ==
    Geostrophic(IF heights.dim[1] = 2
                THEN QDiv(Scalar(R(1), Dimensionless), f)
                ELSE QDiv(g, f),
                _gradient(heights,
                          [k \in 1..(ndim(heights) - 2) |-> Scalar(R(1), Length)]
                          \o <<dy, dx>>),
                ndim(heights))

\* ------------------------------------------------------- ensure_yx_order
Str(x) == [kind |-> "str", s |-> x]
Range(f) == {f[k] : k \in DOMAIN f}

\* _is_x_first_dim(dim_order): the answer and the warnings issued on the way
\* A variant whose default order is 'yx'. C8 tells the two apart.
_is_x_first_dim_yx_default(dim_order) ==
    IF dim_order = None
    THEN [x_first |-> FALSE, warns |-> <<"FutureWarning">>]
    ELSE [x_first |-> (dim_order = Str("xy")), warns |-> <<>>]

_is_x_first_dim(dim_order) ==
    IF dim_order = None
    THEN [x_first |-> TRUE, warns |-> <<"FutureWarning">>]
    ELSE [x_first |-> (dim_order = Str("xy")), warns |-> <<>>]

\* _check_and_flip(arr): arrays of 2 and more axes are transposed, sequences
\* are walked, everything else (scalars, 1-D arrays, strings) is returned as is
RECURSIVE _check_and_flip(_)
_check_and_flip(arr) ==
    IF IsQ(arr) THEN (IF ndim(arr) >= 2 THEN T(arr) ELSE arr)
    ELSE IF IsSeq(arr)
    THEN SeqOf([k \in 1..Len(arr.items) |-> _check_and_flip(arr.items[k])])
    ELSE arr

\* for k, v in kwargs: kwargs[k] = _check_and_flip(v)
\* Iterating a dict walks its keys, so "k, v" unpacks the characters of the
\* first key: a key that is not two characters long raises ValueError; a key
\* of two characters (dx, dy) stores a new one-character key in kwargs, and the
\* iterator's next step raises RuntimeError because the dict changed size.
\* (Keys are parameter names; no parameter is named "d".)
FlipKwargs(kwargs) ==
    IF kwargs = <<>> THEN [kind |-> "kwargs", items |-> kwargs]
    ELSE IF Len(kwargs[1][1]) # 2 THEN Err("ValueError")
    ELSE Err("RuntimeError")

\* the parameters of the wrapped functions, in order
Params(fn) ==
    IF fn = "advection" THEN <<"scalar", "wind", "deltas">>
    ELSE IF fn = "geostrophic_wind" THEN <<"heights", "f", "dx", "dy">>
    ELSE <<"u", "v", "dx", "dy">>

\* Python's binding of func(*args, **kwargs) to the parameters
Bind(params, args, kwargs) ==
    LET names == {kwargs[k][1] : k \in 1..Len(kwargs)}
        pos == {params[k] : k \in 1..Len(args)} 
        kwval(p) == kwargs[CHOOSE k \in 1..Len(kwargs) : kwargs[k][1] = p][2]
        posval(p) == args[CHOOSE k \in 1..Len(params) : params[k] = p]
    IN  IF Len(args) > Len(params) THEN Err("TypeError")
        ELSE IF names \cap pos # {} \/ ~(names \subseteq Range(params))
                \/ (pos \cup names) # Range(params)
        THEN Err("TypeError")
        ELSE [kind |-> "bound",
              arg |-> [p \in Range(params) |-> IF p \in pos THEN posval(p) ELSE kwval(p)]]

\* func(*args, **kwargs) for the function the wrapper decorates
Dispatch(fn, b) ==
    IF IsErr(b) THEN b
    ELSE CASE fn = "v_vorticity" ->
                  v_vorticity(b.arg["u"], b.arg["v"], b.arg["dx"], b.arg["dy"])
           [] fn = "h_convergence" ->
                  h_convergence(b.arg["u"], b.arg["v"], b.arg["dx"], b.arg["dy"])
           [] fn = "convergence_vorticity" ->
                  convergence_vorticity(b.arg["u"], b.arg["v"], b.arg["dx"], b.arg["dy"])
           [] fn = "shearing_deformation" ->
                  shearing_deformation(b.arg["u"], b.arg["v"], b.arg["dx"], b.arg["dy"])
           [] fn = "stretching_deformation" ->
                  stretching_deformation(b.arg["u"], b.arg["v"], b.arg["dx"], b.arg["dy"])
           [] fn = "shearing_stretching_deformation" ->
                  shearing_stretching_deformation(b.arg["u"], b.arg["v"],
                                                  b.arg["dx"], b.arg["dy"])
           [] fn = "total_deformation" ->
                  total_deformation(b.arg["u"], b.arg["v"], b.arg["dx"], b.arg["dy"])
           [] fn = "advection" ->
                  advection(b.arg["scalar"], b.arg["wind"], b.arg["deltas"])
           [] fn = "geostrophic_wind" ->
                  geostrophic_wind(b.arg["heights"], b.arg["f"], b.arg["dx"], b.arg["dy"])

Apply(fn, args, kwargs) == Dispatch(fn, Bind(Params(fn), args, kwargs))

\* kwargs.pop('dim_order', None)
PopDimOrder(kwargs) ==
    IF \E k \in 1..Len(kwargs) : kwargs[k][1] = "dim_order"
    THEN kwargs[CHOOSE k \in 1..Len(kwargs) : kwargs[k][1] = "dim_order"][2]
    ELSE None

NotDimOrder(kv) == kv[1] # "dim_order"

\* ret = func(*args, **kwargs), unless flipping the keywords raised
CallFunc(fn, args, fkw) == IF IsErr(fkw) THEN fkw ELSE Apply(fn, args, fkw.items)

\* if x_first: return _check_and_flip(ret) else: return ret
\* A variant that returns the result in the order the function computed it
\* in. C1 tells the two apart.
FlipBack_never(x_first, r) == r

FlipBack(x_first, r) == IF x_first /\ ~IsErr(r) THEN _check_and_flip(r) ELSE r

Wrapped(fn, args, rest, first) ==
    [val |-> FlipBack(first.x_first,
                      CallFunc(fn,
                               IF first.x_first
                               THEN [k \in 1..Len(args) |-> _check_and_flip(args[k])]
                               ELSE args,
                               IF first.x_first THEN FlipKwargs(rest)
                               ELSE [kind |-> "kwargs", items |-> rest])),
     warns |-> first.warns]

\* ensure_yx_order(func).wrapper(*args, **kwargs): the value returned (or the
\* exception raised) and the warnings issued
wrapper(fn, args, kwargs) ==
    Wrapped(fn, args, SelectSeq(kwargs, NotDimOrder), _is_x_first_dim(PopDimOrder(kwargs)))

\* ------------------------------------------------ storm_relative_helicity
\* np.log and np.exp are transcendental; they are replaced by the rational
\* pair log x ~ 2(x-1)/(x+1), exp y ~ (2+y)/(2-y) (their (1,1) Pade forms),
\* which keeps what the algorithm relies on: both are strictly increasing
\* (x > 0, -2 < y < 2) and each is the exact inverse of the other.
np_log(x) == RDiv(RMul(R(2), RSub(x, R(1))), RAdd(x, R(1)))
np_exp(y) == RDiv(RAdd(R(2), y), RSub(R(2), y))

\* np.interp(x, xp, fp), xp increasing: linear on the bracketing segment, the
\* end values of fp outside the range of xp (no error is raised there)
Linear(x, x0, x1, f0, f1) == RAdd(f0, RMul(RSub(x, x0), RDiv(RSub(f1, f0), RSub(x1, x0))))
OnSegment(x, xp, fp, j) == Linear(x, xp[j], xp[j + 1], fp[j], fp[j + 1])

np_interp(x, xp, fp) ==
    IF RLe(x, xp[1]) THEN fp[1]
    ELSE IF RLe(xp[Len(xp)], x) THEN fp[Len(xp)]
    ELSE OnSegment(x, xp, fp,
                   CHOOSE j \in 1..(Len(xp) - 1) : RLe(xp[j], x) /\ RLt(x, xp[j + 1]))

\* log_interp(x, xp, var), xp decreasing pressures: linear interpolation of var
\* against log(xp) at log(x); the end values of var outside the range of xp
LogSegment(x, xp, var, j) ==
    Linear(np_log(x), np_log(xp[j]), np_log(xp[j + 1]), var[j], var[j + 1])

log_interp(x, xp, var) ==
    IF RLe(xp[1], x) THEN var[1]
    ELSE IF RLe(x, xp[Len(xp)]) THEN var[Len(xp)]
    ELSE LogSegment(x, xp, var,
                    CHOOSE j \in 1..(Len(xp) - 1) : RLt(x, xp[j]) /\ RLe(xp[j + 1], x))

\* ceil(n/d) for d > 0
RCeil(a) == -((-a[1]) \div a[2])

\* np.arange(start, stop, step): start + k*step for 0 <= k < ceil((stop-start)/step)
Steps(start, step, len) == [k \in 1..Max(len, 0) |-> RAdd(start, RMul(R(k - 1), step))]
np_arange(start, stop, step) == Steps(start, step, RCeil(RDiv(RSub(stop, start), step)))

\* the magnitudes of a 1-D quantity, as a sequence
Mags(q) == [k \in 1..q.shape[1] |-> q.at[<<k>>]]

\* int_layers[int_layers > 0.].sum() and int_layers[int_layers < 0.].sum()
\* A variant of the negative sum that sums every term. C5 tells the two apart.
NegativeSum_all(x) == RSum(x, Len(x))

PositiveSum(x) == RSum([k \in 1..Len(x) |-> IF RSign(x[k]) > 0 THEN x[k] ELSE R(0)], Len(x))
NegativeSum(x) == RSum([k \in 1..Len(x) |-> IF RSign(x[k]) < 0 THEN x[k] ELSE R(0)], Len(x))

\* exact: ind1 = np.min(np.where(p_srh_bottom >= p)[0]),
\*        ind2 = np.max(np.where(p_srh_top <= p)[0]),
\*        np.concatenate([[u1], u[ind1:ind2 + 1], [u2]])
Smallest(S) == CHOOSE k \in S : \A j \in S : k <= j
Largest(S) == CHOOSE k \in S : \A j \in S : k >= j

\* A variant that slices u[ind1:ind2], without the + 1, and so drops the last
\* sample of the layer. C16 tells the two apart.
Splice_short(var, pm, p_srh_bottom, p_srh_top, below, above) ==
    IF below = {} \/ above = {} THEN Err("ValueError")
    ELSE SeqOf(<<log_interp(p_srh_bottom, pm, var)>>
               \o SubSeq(var, Smallest(below), Largest(above) - 1)
               \o <<log_interp(p_srh_top, pm, var)>>)

Splice(var, pm, p_srh_bottom, p_srh_top, below, above) ==
    IF below = {} \/ above = {} THEN Err("ValueError")
    ELSE SeqOf(<<log_interp(p_srh_bottom, pm, var)>>
               \o SubSeq(var, Smallest(below), Largest(above))
               \o <<log_interp(p_srh_top, pm, var)>>)

\* not exact: log_interp at np.arange(p_srh_bottom, p_srh_top + dp, dp)
InterpAt(interp_levels, pm, var) ==
    SeqOf([k \in 1..Len(interp_levels) |-> log_interp(interp_levels[k], pm, var)])

\* the sub-profile u_int (or v_int) of the layer
LayerProfile(var, pm, p_srh_bottom, p_srh_top, dp, exact) ==
    IF exact
    THEN Splice(var, pm, p_srh_bottom, p_srh_top,
                {k \in 1..Len(pm) : RLe(pm[k], p_srh_bottom)},
                {k \in 1..Len(pm) : RLe(p_srh_top, pm[k])})
    ELSE InterpAt(np_arange(p_srh_bottom, RAdd(p_srh_top, dp), dp), pm, var)

\* int_layers = sru[1:] * srv[:-1] - sru[:-1] * srv[1:]
IntLayers(sru, srv) ==
    [k \in 1..(IF Len(sru) > 0 THEN Len(sru) - 1 ELSE 0) |->
        RSub(RMul(sru[k + 1], srv[k]), RMul(sru[k], srv[k + 1]))]

\* sru = u_int - storm_u
StormRelative(var_int, storm) == [k \in 1..Len(var_int) |-> RSub(var_int[k], storm)]

\* t_srh = p_srh + n_srh; return p_srh, n_srh, t_srh  (m^2/s^2)
HelicityTuple(p_srh, n_srh) ==
    SeqOf(<<Scalar(p_srh, Geopotential), Scalar(n_srh, Geopotential),
            Scalar(RAdd(p_srh, n_srh), Geopotential)>>)

Helicity(int_layers) == HelicityTuple(PositiveSum(int_layers), NegativeSum(int_layers))

LayerHelicity(u_int, v_int, storm_u, storm_v) ==
    IF IsErr(u_int) THEN u_int
    ELSE IF IsErr(v_int) THEN v_int
    ELSE Helicity(IntLayers(StormRelative(u_int.items, storm_u),
                            StormRelative(v_int.items, storm_v)))

SrhBetween(um, vm, pm, p_srh_bottom, p_srh_top, storm_u, storm_v, dp, exact) ==
    LayerHelicity(LayerProfile(um, pm, p_srh_bottom, p_srh_top, dp, exact),
                  LayerProfile(vm, pm, p_srh_bottom, p_srh_top, dp, exact),
                  storm_u, storm_v)

\* np.exp(np.interp(height, hgt - hgt[0], np.log(p)))
PressureAt(height, hm, pm) ==
    np_exp(np_interp(height, [k \in 1..Len(hm) |-> RSub(hm[k], hm[1])],
                     [k \in 1..Len(pm) |-> np_log(pm[k])]))

\* the body of storm_relative_helicity; dp is a plain number, exact a boolean
srh_body(u, v, p, srh_top, hgt, srh_bottom, storm_u, storm_v, dp, exact) ==
    SrhBetween(Mags(u), Mags(v), Mags(p),
               IF mag(srh_bottom) # R(0)
               THEN PressureAt(mag(srh_bottom), Mags(hgt), Mags(p))
               ELSE Mags(p)[1],
               PressureAt(mag(srh_top), Mags(hgt), Mags(p)),
               mag(storm_u), mag(storm_v), dp, exact)

\* @check_units('[speed]', '[speed]', '[pressure]', '[length]', '[length]',
\*              '[length]', '[speed]', '[speed]'): the arguments with a wrong
\* dimension are collected and, if there is any, ValueError is raised before
\* the function runs
check_units(need, args) ==
    IF \E k \in 1..Len(need) : args[k].dim # need[k] THEN Err("ValueError") ELSE None

storm_relative_helicity(u, v, p, srh_top, hgt, srh_bottom, storm_u, storm_v, dp, exact) ==
    LET bad == check_units(<<Speed, Speed, Pressure, Length, Length, Length, Speed, Speed>>,
                           <<u, v, p, srh_top, hgt, srh_bottom, storm_u, storm_v>>)
    IN  IF IsErr(bad) THEN bad
        ELSE srh_body(u, v, p, srh_top, hgt, srh_bottom, storm_u, storm_v, dp, exact)

\* ------------------------------------------------------- the caller's data
\* Row-major position of index i in an array of the given shape, from 1
RECURSIVE Lin(_, _)
Lin(i, shape) ==
    IF Len(i) = 0 THEN 1
    ELSE (Lin(SubSeq(i, 1, Len(i) - 1), SubSeq(shape, 1, Len(i) - 1)) - 1) * shape[Len(i)]
         + i[Len(i)]

\* The k-th field of a seed: seed 0 is the uniform field of value k, the other
\* seeds give irregular, asymmetric values
Gen(seed, k, n) == k + seed * ((n * n + k * n) % 5)

Field(shape, seed, k, dim) ==
    Quantity(shape, [i \in Idx(shape) |-> R(Gen(seed, k, Lin(i, shape)))], dim)

\* which arguments carry a wrong dimension in each unit scenario
GoodUnits == {"height", "geopotential"}
BadGridUnits == {"u_temperature", "wind_temperature", "dx_time", "spacing_time",
                 "heights_temperature", "f_length"}
BadProfileUnits == {"u_temperature", "p_length", "top_time", "storm_length"}

\* np.ones(shape) * c: the same value at every grid point
Uniform(shape, c, dim) == Quantity(shape, [i \in Idx(shape) |-> R(c)], dim)

\* inp.uniform = "wind": u = v = inp.seed everywhere; "scalar": the advected
\* scalar is inp.seed everywhere; "none": every field comes from the seed
Uniforms == {"none", "wind", "scalar"}

InU == IF inp.uniform = "wind" THEN Uniform(inp.shape, inp.seed, Speed)
       ELSE Field(inp.shape, inp.seed, 1,
                  IF inp.units \in {"u_temperature", "wind_temperature"}
                  THEN Temperature ELSE Speed)
InV == IF inp.uniform = "wind" THEN Uniform(inp.shape, inp.seed, Speed)
       ELSE Field(inp.shape, inp.seed, 2,
                  IF inp.units = "wind_temperature" THEN Temperature ELSE Speed)
InS == IF inp.uniform = "scalar" THEN Uniform(inp.shape, inp.seed, Temperature)
       ELSE Field(inp.shape, inp.seed, 3, Temperature)
InZ == Field(inp.shape, inp.seed, 3,
             IF inp.units = "geopotential" THEN Geopotential
             ELSE IF inp.units = "heights_temperature" THEN Temperature ELSE Length)
InF == Scalar(R(inp.seed + 1), IF inp.units = "f_length" THEN Length ELSE Frequency)
InDx == Scalar(R(inp.dx), IF inp.units \in {"dx_time", "spacing_time"} THEN Time ELSE Length)
InDy == Scalar(R(inp.dy), IF inp.units = "spacing_time" THEN Time ELSE Length)

\* a sounding of inp.nlev levels: heights 1, 3, 5, ... (surface elevation 1),
\* pressures ..., 3, 2, 1 strictly decreasing, winds from the seed
InHgt == Quantity(<<inp.nlev>>, [i \in Idx(<<inp.nlev>>) |-> R(2 * i[1] - 1)], Length)
InP == Quantity(<<inp.nlev>>, [i \in Idx(<<inp.nlev>>) |-> R(inp.nlev + 1 - i[1])],
                IF inp.units = "p_length" THEN Length ELSE Pressure)
InPU == Field(<<inp.nlev>>, inp.seed, 1,
              IF inp.units = "u_temperature" THEN Temperature ELSE Speed)
InPV == Field(<<inp.nlev>>, inp.seed, 2, Speed)
TopAGL == 2 * (inp.nlev - 1)

GridFns == {"v_vorticity", "h_convergence", "convergence_vorticity",
            "shearing_deformation", "stretching_deformation",
            "shearing_stretching_deformation", "total_deformation",
            "advection", "geostrophic_wind"}
DimOrders == {"xy", "yx", "none"}
Styles == {"positional", "keyword"}

\* the arguments of a call of fn, by parameter
ArgsOf(fn) ==
    IF fn = "advection"
    THEN << <<"scalar", InS>>, <<"wind", SeqOf(<<InU, InV>>)>>,
            <<"deltas", SeqOf(<<InDx, InDy>>)>> >>
    ELSE IF fn = "geostrophic_wind"
    THEN << <<"heights", InZ>>, <<"f", InF>>, <<"dx", InDx>>, <<"dy", InDy>> >>
    ELSE << <<"u", InU>>, <<"v", InV>>, <<"dx", InDx>>, <<"dy", InDy>> >>

Values(kv) == [k \in 1..Len(kv) |-> kv[k][2]]
DimOrderKw(o) == IF o = "none" THEN <<>> ELSE << <<"dim_order", Str(o)>> >>

\* fn(a, b, ..., dim_order=o) or fn(u=a, v=b, ..., dim_order=o)
CallOf(fn, as, o, st) ==
    wrapper(fn,
            IF st = "positional" THEN Values(as) ELSE <<>>,
            (IF st = "keyword" THEN as ELSE <<>>) \o DimOrderKw(o))

\* ------------------------------------------------------------ the machine
Init ==
    /\ \/ \E m \in 2..MaxDim, n \in 2..MaxDim, sd \in 0..MaxSeed,
            x \in 1..MaxDelta, y \in 1..MaxDelta, un \in GoodUnits :
             inp = [kind |-> "grid", shape |-> <<m, n>>, seed |-> sd,
                    dx |-> x, dy |-> y, units |-> un, uniform |-> "none"]
       \/ \E sd \in 0..MaxSeed, un \in BadGridUnits :
             inp = [kind |-> "grid", shape |-> <<2, 3>>, seed |-> sd,
                    dx |-> 1, dy |-> 2, units |-> un, uniform |-> "none"]
       \/ \E nl \in 2..MaxLev, sd \in 0..MaxSeed :
             inp = [kind |-> "profile", nlev |-> nl, seed |-> sd, units |-> "ok"]
       \/ \E sd \in 0..MaxSeed, un \in BadProfileUnits :
             inp = [kind |-> "profile", nlev |-> 3, seed |-> sd, units |-> un]
    /\ call = [fn |-> "none"]
    /\ ret = None
    /\ warned = <<>>

\* the outcome of a call becomes the state
Returns(r) == ret' = r.val /\ warned' = r.warns

\* one call at a time: a call is made on fresh data, and its result is
\* dropped (Discard) before the next one
GridCall(fn) ==
    /\ call.fn = "none"
    /\ \E o \in DimOrders, st \in Styles :
          /\ call' = [fn |-> fn, dim_order |-> o, style |-> st]
          /\ Returns(CallOf(fn, ArgsOf(fn), o, st))
    /\ UNCHANGED inp

Call_v_vorticity == inp.kind = "grid" /\ GridCall("v_vorticity")
Call_h_convergence == inp.kind = "grid" /\ GridCall("h_convergence")
Call_convergence_vorticity == inp.kind = "grid" /\ GridCall("convergence_vorticity")
Call_shearing_deformation == inp.kind = "grid" /\ GridCall("shearing_deformation")
Call_stretching_deformation == inp.kind = "grid" /\ GridCall("stretching_deformation")
Call_shearing_stretching_deformation == inp.kind = "grid" /\ GridCall("shearing_stretching_deformation")
Call_total_deformation == inp.kind = "grid" /\ GridCall("total_deformation")
Call_advection == inp.kind = "grid" /\ GridCall("advection")
Call_geostrophic_wind == inp.kind = "grid" /\ GridCall("geostrophic_wind")

\* the layer asked for: bottom and top in height above ground, from below the
\* ground to above the top of the sounding
Layers == {<<b, t>> \in (-1..(TopAGL + 1)) \X (-1..(TopAGL + 1)) : b <= t}
Storms == {<<0, 0>>, <<1, 2>>}

SrhOf(c) ==
    storm_relative_helicity(
        InPU, InPV, InP,
        Scalar(R(c.top), IF inp.units = "top_time" THEN Time ELSE Length),
        InHgt, Scalar(R(c.bottom), Length),
        Scalar(R(c.storm[1]), IF inp.units = "storm_length" THEN Length ELSE Speed),
        Scalar(R(c.storm[2]), Speed),
        R(c.dp), c.exact)

Call_storm_relative_helicity ==
    /\ inp.kind = "profile"
    /\ call.fn = "none"
    /\ \E l \in Layers, st \in Storms, d \in 1..MaxDelta, e \in BOOLEAN :
          /\ call' = [fn |-> "storm_relative_helicity", bottom |-> l[1], top |-> l[2],
                       storm |-> st, dp |-> -d, exact |-> e]
          /\ ret' = SrhOf(call')
    /\ warned' = <<>>
    /\ UNCHANGED inp

Discard ==
    /\ call.fn # "none"
    /\ call' = [fn |-> "none"]
    /\ ret' = None
    /\ warned' = <<>>
    /\ UNCHANGED inp

Next ==
    \/ Call_v_vorticity
    \/ Call_h_convergence
    \/ Call_convergence_vorticity
    \/ Call_shearing_deformation
    \/ Call_stretching_deformation
    \/ Call_shearing_stretching_deformation
    \/ Call_total_deformation
    \/ Call_advection
    \/ Call_geostrophic_wind
    \/ Call_storm_relative_helicity
    \/ Discard

Spec == Init /\ [][Next]_vars

\* ------------------------------------- calls of other shapes and ranks
\* the first row of a 2-D field, a 1-D array
Row(q) ==
    Quantity(<<q.shape[2]>>, [i \in Idx(<<q.shape[2]>>) |-> q.at[<<1>> \o i]], q.dim)

\* a wind sequence of M arrays shaped like the scalar: u, v, u, ...
Components(M) == Tup([k \in 1..M |-> IF k % 2 = 1 THEN InU ELSE InV], M)

AdvectionArgs(M) ==
    << <<"scalar", InS>>, <<"wind", SeqOf(Components(M))>>,
       <<"deltas", SeqOf(<<InDx, InDy>>)>> >>

\* advection(s, u, (dx,)) on 1-D arrays
Advection1dArgs ==
    << <<"scalar", Row(InS)>>, <<"wind", Row(InU)>>, <<"deltas", SeqOf(<<InDx>>)>> >>

\* the height field of level l, and L levels stacked: np.dstack (trailing
\* level axis) for x, y ordered data, a leading level axis for y, x ordered
Level(l) == Field(inp.shape, inp.seed, 2 + l, Length)

Stacked(L, o) ==
    IF o = "yx"
    THEN Quantity(<<L>> \o inp.shape,
                  [i \in Idx(<<L>> \o inp.shape) |-> Level(i[1]).at[<<i[2], i[3]>>]], Length)
    ELSE Quantity(inp.shape \o <<L>>,
                  [i \in Idx(inp.shape \o <<L>>) |-> Level(i[3]).at[<<i[1], i[2]>>]], Length)

Geostrophic3dArgs(L, o) ==
    << <<"heights", Stacked(L, o)>>, <<"f", InF>>, <<"dx", InDx>>, <<"dy", InDy>> >>

InitShapes ==
    /\ \E m \in 2..MaxDim, n \in 2..MaxDim, sd \in 0..MaxSeed,
          x \in 1..MaxDelta, y \in 1..MaxDelta, uf \in Uniforms :
          inp = [kind |-> "grid", shape |-> <<m, n>>, seed |-> sd,
                 dx |-> x, dy |-> y, units |-> "height", uniform |-> uf]
    /\ call = [fn |-> "none"]
    /\ ret = None
    /\ warned = <<>>

\* advection(s, [u], ...) and advection(s, [u, v, u], ...) on a 2-D scalar
Call_advection_components ==
    /\ inp.kind = "grid" /\ call.fn = "none"
    /\ \E M \in {1, 3}, o \in DimOrders :
          /\ call' = [fn |-> "advection_components", ncomp |-> M,
                      dim_order |-> o, style |-> "positional"]
          /\ Returns(CallOf("advection", AdvectionArgs(M), o, "positional"))
    /\ UNCHANGED inp

Call_advection_1d ==
    /\ inp.kind = "grid" /\ call.fn = "none"
    /\ \E o \in DimOrders :
          /\ call' = [fn |-> "advection_1d", dim_order |-> o, style |-> "positional"]
          /\ Returns(CallOf("advection", Advection1dArgs, o, "positional"))
    /\ UNCHANGED inp

Call_geostrophic_wind_3d ==
    /\ inp.kind = "grid" /\ call.fn = "none"
    /\ \E L \in 2..MaxDim, o \in DimOrders :
          /\ call' = [fn |-> "geostrophic_wind_3d", levels |-> L,
                      dim_order |-> o, style |-> "positional"]
          /\ Returns(CallOf("geostrophic_wind", Geostrophic3dArgs(L, o), o, "positional"))
    /\ UNCHANGED inp

\* _gradient(u), _gradient(u, dx), _gradient(u, dx, dy): the first nargs of
\* the spacings are passed
Call__gradient ==
    /\ inp.kind = "grid" /\ call.fn = "none"
    /\ \E k \in 0..2 :
          /\ call' = [fn |-> "_gradient", nargs |-> k]
          /\ ret' = _gradient(InU, SubSeq(<<InDx, InDy>>, 1, k))
    /\ warned' = <<>>
    /\ UNCHANGED inp

NextShapes ==
    \/ Call_v_vorticity
    \/ Call_h_convergence
    \/ Call_convergence_vorticity
    \/ Call_shearing_stretching_deformation
    \/ Call_advection
    \/ Call_advection_components
    \/ Call_advection_1d
    \/ Call_geostrophic_wind_3d
    \/ Call__gradient
    \/ Discard

SpecShapes == InitShapes /\ [][NextShapes]_vars

\* ================================================================= claims
Min(a, b) == IF a <= b THEN a ELSE b

\* The transpose of a 2-D array, index by index, and of every 2-D array in a
\* sequence; anything else is left alone.
Swap(a) ==
    Quantity(<<a.shape[2], a.shape[1]>>,
             [i \in Idx(<<a.shape[2], a.shape[1]>>) |-> a.at[<<i[2], i[1]>>]], a.dim)

RECURSIVE Transposed(_)
Transposed(x) ==
    IF IsQ(x) THEN (IF ndim(x) = 2 THEN Swap(x) ELSE x)
    ELSE IF IsSeq(x) THEN SeqOf([k \in 1..Len(x.items) |-> Transposed(x.items[k])])
    ELSE x

TransposedArgs(as) == [k \in 1..Len(as) |-> <<as[k][1], Transposed(as[k][2])>>]

\* The finite difference of the 2-D array a along axis k at index i, over the
\* spacing d: between the two neighbours at an interior point, between the
\* point and its one neighbour at either end of the axis.
Diff(a, k, i, d) ==
    LET lo == Max(i[k] - 1, 1)
        hi == Min(i[k] + 1, a.shape[k])
    IN  RDiv(RSub(a.at[[i EXCEPT ![k] = hi]], a.at[[i EXCEPT ![k] = lo]]), R((hi - lo) * d))

Dx(a, i) == Diff(a, 2, i, inp.dx)
Dy(a, i) == Diff(a, 1, i, inp.dy)

\* C1: for every wrapped formula, a positional call on the arrays A with
\* dim_order='xy' returns the transpose of what the call on the transposed
\* arrays returns with dim_order='yx' (each element of a returned pair
\* included), dx and dy unchanged.
C1_OrientationInvariance ==
    (call.fn \in GridFns /\ call.dim_order = "xy" /\ call.style = "positional")
        => ret = Transposed(CallOf(call.fn, TransposedArgs(ArgsOf(call.fn)),
                                   "yx", "positional").val)

\* a call in xy order on a non-square grid whose result differs from what the
\* same arrays give when read in yx order
C1_Witness ==
    /\ call.fn = "advection" /\ call.dim_order = "xy" /\ call.style = "positional"
    /\ inp.shape = <<2, 3>> /\ inp.dx # inp.dy
    /\ IsQ(ret) /\ ret.shape = <<2, 3>>
    /\ ret # CallOf("advection", ArgsOf("advection"), "yx", "positional").val

\* C2: in yx order v_vorticity is Dx(v) - Dy(u) and h_convergence is
\* Dx(u) + Dy(v) at every grid point, Dx the difference along the last axis
\* over dx and Dy the difference along the first axis over dy.
C2_VorticityConvergenceFormula ==
    (call.fn \in {"v_vorticity", "h_convergence"} /\ call.dim_order = "yx"
     /\ inp.units \in GoodUnits)
        => /\ IsQ(ret)
           /\ ret.shape = inp.shape
           /\ \A i \in Idx(inp.shape) :
                 ret.at[i] = IF call.fn = "v_vorticity"
                             THEN RSub(Dx(InV, i), Dy(InU, i))
                             ELSE RAdd(Dx(InU, i), Dy(InV, i))

\* a vorticity on a grid with interior points along both axes, unequal
\* spacings and a non-uniform wind
C2_Witness ==
    /\ call.fn = "v_vorticity" /\ call.dim_order = "yx"
    /\ inp.shape = <<3, 3>> /\ inp.dx = 1 /\ inp.dy = 2 /\ inp.seed = 1
    /\ IsQ(ret) /\ ret.at[<<2, 2>>] # R(0)

\* C3: convergence_vorticity returns the pair (h_convergence, v_vorticity)
\* and shearing_stretching_deformation the pair (shearing_deformation,
\* stretching_deformation) of the same call, in that order.
C3_CombinedEqualsSingles ==
    /\ call.fn = "convergence_vorticity"
         => ret = Tuple2(CallOf("h_convergence", ArgsOf("h_convergence"),
                                call.dim_order, call.style).val,
                         CallOf("v_vorticity", ArgsOf("v_vorticity"),
                                call.dim_order, call.style).val)
    /\ call.fn = "shearing_stretching_deformation"
         => ret = Tuple2(CallOf("shearing_deformation", ArgsOf("shearing_deformation"),
                                call.dim_order, call.style).val,
                         CallOf("stretching_deformation", ArgsOf("stretching_deformation"),
                                call.dim_order, call.style).val)

\* a combined call that returned a pair of different, non-zero fields
C3_Witness ==
    /\ call.fn = "shearing_stretching_deformation" /\ call.dim_order = "xy"
    /\ IsSeq(ret) /\ ret.items[1] # ret.items[2]
    /\ \E i \in Idx(inp.shape) : ret.items[1].at[i] # R(0) /\ ret.items[2].at[i] # R(0)

\* C4: in yx order, with wind [u, v] and deltas (dx, dy), advection is
\* -(u * Dx(s) + v * Dy(s)) at every grid point.
C4_AdvectionFormula ==
    (call.fn = "advection" /\ call.dim_order = "yx" /\ inp.units \in GoodUnits)
        => /\ IsQ(ret)
           /\ ret.shape = inp.shape
           /\ \A i \in Idx(inp.shape) :
                 ret.at[i] = RNeg(RAdd(RMul(InU.at[i], Dx(InS, i)),
                                       RMul(InV.at[i], Dy(InS, i))))

\* an advection where both terms matter: u * Dx(s) and v * Dy(s) differ from
\* u * Dy(s) and v * Dx(s)
C4_Witness ==
    /\ call.fn = "advection" /\ call.dim_order = "yx" /\ inp.units \in GoodUnits
    /\ inp.shape = <<3, 2>> /\ IsQ(ret)
    /\ \E i \in Idx(inp.shape) :
          /\ RMul(InU.at[i], Dx(InS, i)) # R(0)
          /\ RMul(InV.at[i], Dy(InS, i)) # R(0)
          /\ ret.at[i] # RNeg(RAdd(RMul(InV.at[i], Dx(InS, i)),
                                   RMul(InU.at[i], Dy(InS, i))))

\* The cross terms of the layer of call c, cross_k = su[k+1]*sv[k] -
\* su[k]*sv[k+1], over the storm-relative sub-profile the function builds
\* for that layer.
SumSeq(s) == RSum(s, Len(s))
IsPositive(x) == RSign(x) > 0
IsNegative(x) == RSign(x) < 0
NonZero(x) == RSign(x) # 0

LayerBottom(c) ==
    IF c.bottom # 0 THEN PressureAt(R(c.bottom), Mags(InHgt), Mags(InP)) ELSE Mags(InP)[1]
LayerTop(c) == PressureAt(R(c.top), Mags(InHgt), Mags(InP))
SubProfile(var, c) ==
    LayerProfile(Mags(var), Mags(InP), LayerBottom(c), LayerTop(c), R(c.dp), c.exact).items
Cross(su, sv) ==
    [k \in 1..(Len(su) - 1) |-> RSub(RMul(su[k + 1], sv[k]), RMul(su[k], sv[k + 1]))]
CrossTerms(c) ==
    Cross([k \in 1..Len(SubProfile(InPU, c)) |-> RSub(SubProfile(InPU, c)[k], R(c.storm[1]))],
          [k \in 1..Len(SubProfile(InPV, c)) |-> RSub(SubProfile(InPV, c)[k], R(c.storm[2]))])

SignPartition(r, cross) ==
    /\ mag(r.items[1]) = SumSeq(SelectSeq(cross, IsPositive))
    /\ mag(r.items[2]) = SumSeq(SelectSeq(cross, IsNegative))
    /\ mag(r.items[3]) = RAdd(mag(r.items[1]), mag(r.items[2]))
    /\ RSign(mag(r.items[1])) >= 0
    /\ RSign(mag(r.items[2])) <= 0
    /\ mag(r.items[3]) = SumSeq(cross)
    /\ mag(r.items[3]) = SumSeq(SelectSeq(cross, NonZero))

\* C5: storm_relative_helicity returns (positive, negative, total): positive
\* is the sum of the strictly positive cross terms, negative the sum of the
\* strictly negative ones, total their sum; so positive >= 0, negative <= 0,
\* total is the sum of all cross terms, and zero terms change none of them.
C5_HelicitySignPartition ==
    (call.fn = "storm_relative_helicity" /\ IsSeq(ret)) => SignPartition(ret, CrossTerms(call))

HasAll(cross) ==
    /\ \E k \in 1..Len(cross) : IsPositive(cross[k])
    /\ \E k \in 1..Len(cross) : IsNegative(cross[k])
    /\ \E k \in 1..Len(cross) : ~NonZero(cross[k])

\* a helicity whose layer has positive, negative and zero cross terms
C5_Witness ==
    /\ call.fn = "storm_relative_helicity" /\ IsSeq(ret)
    /\ HasAll(CrossTerms(call))
    /\ mag(ret.items[1]) # R(0) /\ mag(ret.items[2]) # R(0)

\* The normalisation factor the heights' units call for: 1/f for a
\* geopotential (length^2/time^2), g/f for a height
Norm == IF inp.units = "geopotential" THEN RDiv(R(1), mag(InF)) ELSE RDiv(mag(g), mag(InF))

\* the same call with the height field z replaced by the geopotential g * z
AsGeopotential(as) ==
    [k \in 1..Len(as) |-> IF as[k][1] = "heights" THEN <<"heights", QMul(g, as[k][2])>>
                          ELSE as[k]]

\* C6: geostrophic_wind returns (-(1/f) Dy(Phi), (1/f) Dx(Phi)) for a
\* geopotential Phi and (-(g/f) Dy(z), (g/f) Dx(z)) for a height z, so the
\* call on z and the call on g * z return the same pair.
C6_GeostrophicNormalisation ==
    (call.fn = "geostrophic_wind" /\ inp.units \in GoodUnits)
        => /\ call.dim_order = "yx"
                => /\ IsSeq(ret)
                   /\ \A i \in Idx(inp.shape) :
                         /\ ret.items[1].at[i] = RNeg(RMul(Norm, Dy(InZ, i)))
                         /\ ret.items[2].at[i] = RMul(Norm, Dx(InZ, i))
           /\ inp.units = "height"
                => ret = CallOf("geostrophic_wind", AsGeopotential(ArgsOf("geostrophic_wind")),
                                call.dim_order, call.style).val

\* a geostrophic wind of a height field with both components non-zero
\* somewhere, where 1/f in place of g/f would give another wind
C6_Witness ==
    /\ call.fn = "geostrophic_wind" /\ inp.units = "height" /\ call.dim_order = "yx"
    /\ IsSeq(ret)
    /\ \E i \in Idx(inp.shape) :
          /\ ret.items[1].at[i] # R(0)
          /\ ret.items[2].at[i] # R(0)
          /\ ret.items[2].at[i] # RMul(RDiv(R(1), mag(InF)), Dx(InZ, i))

\* C7 as the specification states it: a call that passes the arrays by
\* keyword with dim_order='xy' returns what the positional call returns.
C7_KeywordLikePositional ==
    (call.fn \in GridFns /\ call.style = "keyword" /\ call.dim_order = "xy"
     /\ inp.units \in GoodUnits)
        => ret = CallOf(call.fn, ArgsOf(call.fn), "xy", "positional").val

\* C8: a call without dim_order emits FutureWarning and returns what the
\* same call returns with dim_order='xy'; a call with dim_order given
\* emits no such warning.
C8_DefaultOrderWarns ==
    call.fn \in GridFns
        => /\ call.dim_order = "none"
                => /\ warned = <<"FutureWarning">>
                   /\ ret = CallOf(call.fn, ArgsOf(call.fn), "xy", call.style).val
           /\ call.dim_order \in {"xy", "yx"} => warned = <<>>

\* a call without dim_order that warned and returned a field which is not
\* the one dim_order='yx' gives
C8_Witness ==
    /\ call.fn = "v_vorticity" /\ call.dim_order = "none" /\ call.style = "positional"
    /\ warned = <<"FutureWarning">>
    /\ IsQ(ret) /\ inp.shape = <<3, 2>>
    /\ ret # CallOf("v_vorticity", ArgsOf("v_vorticity"), "yx", "positional").val

\* The dimension each argument is documented to have: winds are speeds,
\* spacings lengths, heights a length or a geopotential, f a frequency; the
\* advected scalar may be anything.
RECURSIVE WellDimensioned(_, _)
WellDimensioned(name, x) ==
    IF IsSeq(x) THEN \A k \in 1..Len(x.items) : WellDimensioned(name, x.items[k])
    ELSE CASE name \in {"u", "v", "wind"} -> x.dim = Speed
           [] name \in {"dx", "dy", "deltas"} -> x.dim = Length
           [] name = "heights" -> x.dim \in {Length, Geopotential}
           [] name = "f" -> x.dim = Frequency
           [] OTHER -> TRUE

WrongArgument(as) == \E k \in 1..Len(as) : ~WellDimensioned(as[k][1], as[k][2])

\* C9 as the specification states it: every entry point called with an
\* argument of the wrong dimension fails instead of returning a value.
C9_WrongUnitsRejected ==
    /\ (call.fn \in GridFns /\ WrongArgument(ArgsOf(call.fn))) => IsErr(ret)
    /\ (call.fn = "storm_relative_helicity" /\ inp.units \in BadProfileUnits) => IsErr(ret)

\* C10 as the specification states it: a layer that reaches below the first
\* height or above the last one makes storm_relative_helicity fail. (Stated
\* for exact=True, where every level the function interpolates to lies
\* between the profile's end pressures.)
C10_LayerOutsideProfileRejected ==
    (call.fn = "storm_relative_helicity" /\ inp.units = "ok" /\ call.exact
     /\ (call.bottom < 0 \/ call.top > TopAGL))
        => IsErr(ret)

\* t is the non-negative root of sh^2 + st^2 at every grid point: its
\* radicand is not negative and equals sh^2 + st^2
RootOfSquares(t, sh, st) ==
    /\ IsQ(t) /\ t.shape = sh.shape
    /\ \A i \in Idx(sh.shape) :
          /\ Len(t.at[i]) = 3 /\ t.at[i][3] = 2
          /\ RSign(<<t.at[i][1], t.at[i][2]>>) >= 0
          /\ <<t.at[i][1], t.at[i][2]>>
                = RAdd(RMul(sh.at[i], sh.at[i]), RMul(st.at[i], st.at[i]))

SameCall(fn) == CallOf(fn, ArgsOf(fn), call.dim_order, call.style).val

\* C13: total_deformation returns at each grid point a value t >= 0 with
\* t^2 = sh^2 + st^2, sh and st being what shearing_deformation and
\* stretching_deformation return there for the same arguments and orientation.
C13_TotalDeformationIsRoot ==
    (call.fn = "total_deformation" /\ IsQ(SameCall("shearing_deformation"))
     /\ IsQ(SameCall("stretching_deformation")))
        => RootOfSquares(ret, SameCall("shearing_deformation"),
                         SameCall("stretching_deformation"))

\* a total deformation with a point where shearing and stretching are both
\* non-zero and of different size
C13_Witness ==
    /\ call.fn = "total_deformation" /\ call.dim_order = "xy" /\ IsQ(ret)
    /\ inp.shape = <<2, 3>>
    /\ \E i \in Idx(ret.shape) :
          /\ SameCall("shearing_deformation").at[i] # R(0)
          /\ SameCall("stretching_deformation").at[i] # R(0)
          /\ RMul(SameCall("shearing_deformation").at[i], SameCall("shearing_deformation").at[i])
               # RMul(SameCall("stretching_deformation").at[i],
                      SameCall("stretching_deformation").at[i])

\* C11 as the specification states it: advection on a 2-D scalar with a
\* wind sequence of one or of three arrays fails instead of returning.
C11_ComponentCountRejected ==
    call.fn = "advection_components" => IsErr(ret)

\* level l of a stacked field q: along the leading axis for y, x ordered
\* data, along the trailing axis for x, y ordered data
LevelOf(q, l, o) ==
    Quantity(inp.shape,
             [i \in Idx(inp.shape) |-> q.at[IF o = "yx" THEN <<l>> \o i ELSE i \o <<l>>]],
             q.dim)

\* the call on the 2-D field of level l alone
LevelAlone(l, o) ==
    CallOf("geostrophic_wind",
           << <<"heights", Level(l)>>, <<"f", InF>>, <<"dx", InDx>>, <<"dy", InDy>> >>,
           o, "positional").val

LevelByLevel(r, stacked, L, o) ==
    /\ IsSeq(r) /\ Len(r.items) = 2
    /\ \A c \in 1..2 :
          /\ r.items[c].shape = stacked.shape
          /\ \A l \in 1..L : LevelOf(r.items[c], l, o) = LevelAlone(l, o).items[c]

\* C12: for a rank-3 height field of stacked 2-D levels, geostrophic_wind
\* returns for every level exactly the (u_g, v_g) it returns for that level
\* alone; the level axis leads under 'yx' and trails under 'xy', and the
\* result has the axis order of the input.
C12_GeostrophicLevelByLevel ==
    call.fn = "geostrophic_wind_3d"
        => LevelByLevel(ret, Stacked(call.levels, call.dim_order), call.levels, call.dim_order)

\* a 3-level call on x, y ordered data of a non-square grid, whose levels
\* have different winds
C12_Witness ==
    /\ call.fn = "geostrophic_wind_3d" /\ call.dim_order = "xy" /\ call.levels = 3
    /\ inp.shape = <<2, 3>> /\ inp.dx # inp.dy
    /\ IsSeq(ret) /\ ret.items[1].shape = <<2, 3, 3>>
    /\ LevelOf(ret.items[1], 1, "xy") # LevelOf(ret.items[1], 2, "xy")
    /\ LevelOf(ret.items[2], 2, "xy") # LevelOf(ret.items[2], 3, "xy")

\* q has one value at every grid point; r is zero at every grid point
\* (every element of r, if r is a pair)
Flat(q) == \A i \in Idx(q.shape), j \in Idx(q.shape) : q.at[i] = q.at[j]

RECURSIVE ZeroEverywhere(_, _)
ZeroEverywhere(r, shape) ==
    IF IsSeq(r) THEN \A k \in 1..Len(r.items) : ZeroEverywhere(r.items[k], shape)
    ELSE IsQ(r) /\ r.shape = shape /\ \A i \in Idx(shape) : r.at[i] = R(0)

\* C14: for a spatially uniform wind and any spacings, h_convergence,
\* v_vorticity and both values of convergence_vorticity and of
\* shearing_stretching_deformation are exactly zero at every grid point, in
\* both orientations.
C14_UniformWindGivesZero ==
    (call.fn \in {"h_convergence", "v_vorticity", "convergence_vorticity",
                  "shearing_stretching_deformation"}
     /\ (call.style = "positional" \/ call.dim_order = "yx")
     /\ inp.units \in GoodUnits /\ Flat(InU) /\ Flat(InV))
        => ZeroEverywhere(ret, inp.shape)

\* a call on u = v = 2 everywhere, on a non-square grid with unequal spacings
C14_Witness ==
    /\ call.fn = "convergence_vorticity" /\ call.dim_order = "xy"
    /\ inp.uniform = "wind" /\ inp.seed = 2 /\ InU = InV /\ InU.at[<<1, 1>>] = R(2)
    /\ inp.shape = <<3, 2>> /\ inp.dx # inp.dy
    /\ IsSeq(ret) /\ ZeroEverywhere(ret, inp.shape)

\* C15: advection of a spatially uniform scalar is exactly zero at every grid
\* point whatever the wind, for a 1-D scalar with a single wind array and for
\* a 2-D scalar with a two-component wind list, in both orientations.
C15_UniformScalarNotAdvected ==
    /\ (call.fn = "advection" /\ (call.style = "positional" \/ call.dim_order = "yx")
        /\ inp.units \in GoodUnits /\ Flat(InS))
           => ZeroEverywhere(ret, inp.shape)
    /\ (call.fn = "advection_1d" /\ Flat(Row(InS)))
           => ZeroEverywhere(ret, <<inp.shape[2]>>)

\* the scalar is 2 everywhere and the wind varies from point to point: a 2-D
\* call under 'xy' on a non-square grid, and a 1-D call
C15_Witness2d ==
    /\ call.fn = "advection" /\ call.dim_order = "xy" /\ call.style = "positional"
    /\ inp.uniform = "scalar" /\ inp.seed = 2 /\ InS.at[<<1, 1>>] = R(2)
    /\ ~Flat(InU) /\ ~Flat(InV) /\ inp.shape = <<2, 3>> /\ inp.dx # inp.dy
    /\ ZeroEverywhere(ret, inp.shape)

C15_Witness ==
    /\ call.fn = "advection_1d" /\ call.dim_order = "xy"
    /\ inp.uniform = "scalar" /\ inp.seed = 2 /\ Row(InS).at[<<1>>] = R(2)
    /\ ~Flat(Row(InU)) /\ inp.shape[2] = 3 /\ inp.dx = 2
    /\ ZeroEverywhere(ret, <<3>>)

\* the samples var[k], k in S, among the first n, in their original order
RECURSIVE Pick(_, _, _)
Pick(var, S, n) ==
    IF n = 0 THEN <<>>
    ELSE Pick(var, S, n - 1) \o (IF n \in S THEN <<var[n]>> ELSE <<>>)

\* the samples of the profile with p_top <= pressure <= p_bottom
InLayer(pm, p_bottom, p_top) ==
    {k \in 1..Len(pm) : RLe(p_top, pm[k]) /\ RLe(pm[k], p_bottom)}

Spliced(var, pm, p_bottom, p_top) ==
    <<log_interp(p_bottom, pm, var)>>
    \o Pick(var, InLayer(pm, p_bottom, p_top), Len(pm))
    \o <<log_interp(p_top, pm, var)>>

\* p_top <= p_bottom, both within the pressures of the profile
LayerInProfile(pm, p_bottom, p_top) ==
    /\ RLe(p_top, p_bottom)
    /\ RLe(pm[Len(pm)], p_top) /\ RLe(p_bottom, pm[1])

\* C16: in exact mode, with p_top <= p_bottom inside the range of a strictly
\* decreasing pressure profile, the sub-profile that is integrated is the
\* value interpolated at p_bottom, then exactly the samples with
\* p_top <= pressure <= p_bottom in their order, then the value interpolated
\* at p_top (also for bottom = 0, where p_bottom = pressure[0]); the returned
\* helicity is that of this sub-profile.
C16_ExactSubProfile ==
    (call.fn = "storm_relative_helicity" /\ inp.units = "ok" /\ call.exact
     /\ LayerInProfile(Mags(InP), LayerBottom(call), LayerTop(call)))
        => /\ SubProfile(InPU, call)
                = Spliced(Mags(InPU), Mags(InP), LayerBottom(call), LayerTop(call))
           /\ SubProfile(InPV, call)
                = Spliced(Mags(InPV), Mags(InP), LayerBottom(call), LayerTop(call))
           /\ (call.bottom = 0 => LayerBottom(call) = Mags(InP)[1])
           /\ ret = LayerHelicity(
                        SeqOf(Spliced(Mags(InPU), Mags(InP), LayerBottom(call), LayerTop(call))),
                        SeqOf(Spliced(Mags(InPV), Mags(InP), LayerBottom(call), LayerTop(call))),
                        R(call.storm[1]), R(call.storm[2]))

\* a layer whose ends lie between samples, with one sample strictly inside:
\* the sub-profile is (interpolated, the sample, interpolated)
C16_Witness ==
    /\ call.fn = "storm_relative_helicity" /\ inp.units = "ok" /\ call.exact
    /\ inp.nlev = 3 /\ inp.seed = 1 /\ call.bottom = 1 /\ call.top = 3
    /\ InLayer(Mags(InP), LayerBottom(call), LayerTop(call)) = {2}
    /\ Len(SubProfile(InPU, call)) = 3
    /\ SubProfile(InPU, call)[2] = Mags(InPU)[2]
    /\ SubProfile(InPU, call)[1] # Mags(InPU)[1] /\ SubProfile(InPU, call)[1] # Mags(InPU)[2]
    /\ IsSeq(ret)

\* the layer from the surface: p_bottom is the first pressure, and the first
\* sample follows the (equal) value interpolated there
C16_WitnessSurface ==
    /\ call.fn = "storm_relative_helicity" /\ inp.units = "ok" /\ call.exact
    /\ inp.nlev = 3 /\ inp.seed = 1 /\ call.bottom = 0 /\ call.top = 3
    /\ InLayer(Mags(InP), LayerBottom(call), LayerTop(call)) = {1, 2}
    /\ Len(SubProfile(InPU, call)) = 4
    /\ IsSeq(ret)

\* interp_levels of a call with exact=False
InterpLevels(c) == np_arange(LayerBottom(c), RAdd(LayerTop(c), R(c.dp)), R(c.dp))

\* the levels start at p_bottom and step by pressure_increment
StartsAndSteps(levels, p_bottom, dp) ==
    /\ Len(levels) >= 1 /\ levels[1] = p_bottom
    /\ \A k \in 1..(Len(levels) - 1) : RSub(levels[k + 1], levels[k]) = dp

Within(levels, p_bottom, p_top) ==
    \A k \in 1..Len(levels) : RLe(p_top, levels[k]) /\ RLe(levels[k], p_bottom)

NotExactLayer ==
    /\ call.fn = "storm_relative_helicity" /\ inp.units = "ok" /\ ~call.exact
    /\ RLt(LayerTop(call), LayerBottom(call))

\* C17 as the specification states it: with exact=False the pressures the
\* wind is interpolated at start at p_bottom, step by pressure_increment and
\* all lie between p_top and p_bottom, for every p_bottom > p_top and every
\* negative pressure_increment.
C17_UniformGridWithinLayer ==
    NotExactLayer
        => /\ StartsAndSteps(InterpLevels(call), LayerBottom(call), R(call.dp))
           /\ Within(InterpLevels(call), LayerBottom(call), LayerTop(call))

\* what the levels do satisfy: they start at p_bottom, step by
\* pressure_increment, and the last one is the first that is <= p_top
GridReachesTop ==
    NotExactLayer
        => /\ StartsAndSteps(InterpLevels(call), LayerBottom(call), R(call.dp))
           /\ \A k \in 1..Len(InterpLevels(call)) :
                 (k < Len(InterpLevels(call))) = RLt(LayerTop(call), InterpLevels(call)[k])

\* gq is the derivative of the 2-D array a along axis k over the spacing d,
\* in the units dim
DerivativeIs(gq, a, k, d, dim) ==
    /\ IsQ(gq) /\ gq.shape = a.shape /\ gq.dim = dim
    /\ \A i \in Idx(a.shape) : gq.at[i] = Diff(a, k, i, d)

\* C18 as the specification states it: _gradient of a 2-D field with one
\* spacing d applies d to the last axis, and the missing first axis gets a
\* dimensionless spacing 1.
C18_MissingSpacingsLead ==
    (call.fn = "_gradient" /\ call.nargs = 1)
        => /\ IsSeq(ret) /\ Len(ret.items) = 2
           /\ DerivativeIs(ret.items[2], InU, 2, inp.dx, DimDiv(Speed, Length))
           /\ DerivativeIs(ret.items[1], InU, 1, 1, DimDiv(Speed, Dimensionless))

\* what _gradient does: the spacing given divides the differences along the
\* first axis, and the last axis gets the dimensionless spacing 1; with no
\* spacing at all both axes get it
SuppliedSpacingsLead ==
    /\ (call.fn = "_gradient" /\ call.nargs = 1)
          => /\ IsSeq(ret) /\ Len(ret.items) = 2
             /\ DerivativeIs(ret.items[1], InU, 1, inp.dx, DimDiv(Speed, Length))
             /\ DerivativeIs(ret.items[2], InU, 2, 1, DimDiv(Speed, Dimensionless))
    /\ (call.fn = "_gradient" /\ call.nargs = 0)
          => /\ IsSeq(ret) /\ Len(ret.items) = 2
             /\ DerivativeIs(ret.items[1], InU, 1, 1, DimDiv(Speed, Dimensionless))
             /\ DerivativeIs(ret.items[2], InU, 2, 1, DimDiv(Speed, Dimensionless))

====
